---------------------------- MODULE Spec2Model ----------------------------
(***************************************************************************)
(* Paws & Tails: the listing page (filtering, pagination), the order page  *)
(* (delivery surcharge, total) and the pure helpers of src/js/main.js over *)
(* the catalog of src/unnamed/part_000.                                    *)
(*                                                                         *)
(* JavaScript strings that the code takes apart (the age of a record, the  *)
(* argument of parseAgeToWeeks) are sequences of one-character strings;    *)
(* strings that the code only compares or uses as property names (breed,   *)
(* gender, id, filter values, delivery options) are TLA+ strings.          *)
(* JavaScript values that may or may not be numbers or strings are records *)
(* tagged by "t" (typeof).                                                 *)
(***************************************************************************)
EXTENDS Integers, Sequences, FiniteSets, TLC

VARIABLES
    pagePath,         \* the page loaded: the last part of location.pathname
    catalog,          \* the global `puppies` array
    itemsPerPage,     \* APP_CONFIG.pagination.itemsPerPage
    filters,          \* values of the three <select> filter elements
    filteredPuppies,  \* AvailablePage.filteredPuppies
    currentPage,      \* PaginationManager.currentPage
    grid,             \* children of #puppy-grid: cards, or the no-results box
    controls,         \* children of #pagination-container
    timeout,          \* the debounce closure's pending timer (ms left) or NoTimeout
    lastEvent,        \* the handler that ran last on the listing page
    burst,            \* since the last change event: ms passed, debounced runs
    changesLeft,      \* change events the user still makes, or Unbounded
    urlPuppyId,       \* the puppyId parameter of the URL, or null
    selectedPuppy,    \* OrderPage.selectedPuppy
    orderContent,     \* what #order-content shows
    summary,          \* the texts of #summaryShipping and #summaryTotal
    form,             \* #adoptionForm: its fields, classes, focus, submission
    orderEvent,       \* the handler that ran last on the order page
    call,             \* a direct call of an exported function: name and arguments
    ret               \* what that call returned

listingVars == <<catalog, itemsPerPage, filters, filteredPuppies, currentPage,
                 grid, controls, timeout, lastEvent, burst, changesLeft>>

orderVars == <<urlPuppyId, selectedPuppy, orderContent, summary, form, orderEvent>>

vars == <<pagePath, listingVars, orderVars, call, ret>>

----------------------------------------------------------------------------
(* Bounds of the model *)

MaxAgeNum == 13      \* numbers N written into "N weeks" / "N months" inputs
MaxItems == 12       \* longest item list handed to getItemsForPage directly
MaxPerPage == 3      \* itemsPerPage values 1..MaxPerPage besides the shipped 10
MaxPageArg == 4      \* page arguments -MaxPageArg .. pageCount + MaxPageArg
MaxBurst == 3        \* change events of one burst, where a burst is bounded

----------------------------------------------------------------------------
(* APP_CONFIG *)

ItemsPerPage == 10
ShippingPickup == 0
ShippingStandard == 150
ShippingHandDelivery == 350
DebounceWait == 300

\* Own properties of APP_CONFIG.ageRanges
AgeRangeNames == {"8-12 weeks", "3-6 months"}

ageRanges(name) ==
    IF name = "8-12 weeks" THEN [min |-> 8, max |-> 12]
    ELSE [min |-> 12, max |-> 24]

\* Own properties of APP_CONFIG.shipping
ShippingNames == {"pickup", "standard", "handDelivery"}

shipping(name) ==
    CASE name = "pickup" -> ShippingPickup
      [] name = "standard" -> ShippingStandard
      [] OTHER -> ShippingHandDelivery

\* Property names every object literal inherits from Object.prototype: obj[name]
\* for one of these is a function (or, for __proto__, an object), never undefined.
ObjectPrototypeNames ==
    {"constructor", "toString", "valueOf", "hasOwnProperty", "__proto__"}

----------------------------------------------------------------------------
(* JavaScript values *)

JsUndefined == [t |-> "undefined"]
JsNull == [t |-> "null"]
JsNum(n) == [t |-> "number", n |-> n]
JsNaN == [t |-> "NaN"]
JsStr(s) == [t |-> "string", s |-> s]
JsInherited(name) == [t |-> "inherited", name |-> name]

\* ToBoolean
Truthy(v) ==
    CASE v.t = "undefined" -> FALSE
      [] v.t = "null" -> FALSE
      [] v.t = "NaN" -> FALSE
      [] v.t = "number" -> v.n # 0
      [] v.t = "string" -> v.s # <<>>
      [] OTHER -> TRUE

----------------------------------------------------------------------------
(* Strings as character sequences *)

UpperChars == <<"W", "E", "K", "S", "M", "O", "N", "T", "H", "D", "A", "Y", "X">>
LowerChars == <<"w", "e", "k", "s", "m", "o", "n", "t", "h", "d", "a", "y", "x">>
HexChars == <<"0", "1", "2", "3", "4", "5", "6", "7", "8", "9",
              "a", "b", "c", "d", "e", "f">>

IsWhite(c) == c \in {" ", "\t"}

LowerChar(c) ==
    IF \E i \in 1..Len(UpperChars) : UpperChars[i] = c
    THEN LowerChars[CHOOSE i \in 1..Len(UpperChars) : UpperChars[i] = c]
    ELSE c

\* String.prototype.toLowerCase
toLowerCase(s) == [i \in 1..Len(s) |-> LowerChar(s[i])]

\* String.prototype.trim
trim(s) ==
    IF \A i \in 1..Len(s) : IsWhite(s[i]) THEN <<>>
    ELSE LET first == CHOOSE i \in 1..Len(s) :
                          ~IsWhite(s[i]) /\ \A j \in 1..(i-1) : IsWhite(s[j])
             last == CHOOSE i \in 1..Len(s) :
                          ~IsWhite(s[i]) /\ \A j \in (i+1)..Len(s) : IsWhite(s[j])
         IN SubSeq(s, first, last)

\* String.prototype.split(' '): every single space separates, so two spaces in
\* a row give an empty part, and a string without a space is its only part.
RECURSIVE split(_)
split(s) ==
    IF \A i \in 1..Len(s) : s[i] # " " THEN <<s>>
    ELSE LET k == CHOOSE i \in 1..Len(s) :
                      s[i] = " " /\ \A j \in 1..(i-1) : s[j] # " "
         IN <<SubSeq(s, 1, k-1)>> \o split(SubSeq(s, k+1, Len(s)))

\* String.prototype.includes
includes(s, sub) ==
    \E i \in 0..(Len(s) - Len(sub)) : SubSeq(s, i+1, i+Len(sub)) = sub

DigitVal(c) == (CHOOSE i \in 1..Len(HexChars) : HexChars[i] = c) - 1

IsDigit(c, radix) ==
    \E i \in 1..radix : HexChars[i] = c

\* The value of the longest prefix of s made of digits of the radix, with the
\* number of digits read.
RECURSIVE ReadDigits(_, _, _, _)
ReadDigits(s, radix, acc, count) ==
    IF s # <<>> /\ IsDigit(s[1], radix)
    THEN ReadDigits(Tail(s), radix, acc * radix + DigitVal(s[1]), count + 1)
    ELSE [n |-> acc, count |-> count]

RECURSIVE SkipWhite(_)
SkipWhite(s) == IF s # <<>> /\ IsWhite(s[1]) THEN SkipWhite(Tail(s)) ELSE s

\* parseInt(string) with no radix: leading white space, a sign, a 0x prefix
\* (radix 16, else 10), then the longest run of digits; NaN when there is none.
parseInt(str) ==
    LET s0 == SkipWhite(str)
        neg == s0 # <<>> /\ s0[1] = "-"
        s1 == IF s0 # <<>> /\ s0[1] \in {"-", "+"} THEN Tail(s0) ELSE s0
        hex == Len(s1) >= 2 /\ s1[1] = "0" /\ s1[2] \in {"x", "X"}
        s2 == IF hex THEN SubSeq(s1, 3, Len(s1)) ELSE s1
        r == ReadDigits(s2, IF hex THEN 16 ELSE 10, 0, 0)
    IN IF r.count = 0 THEN JsNaN
       ELSE JsNum(IF neg THEN 0 - r.n ELSE r.n)

WEEK == <<"w", "e", "e", "k">>
MONTH == <<"m", "o", "n", "t", "h">>

\* A mutation of parseAgeToWeeks: a month counted as 5 weeks.
parseAgeToWeeks_month5(ageString) ==
    IF ~Truthy(ageString) \/ ageString.t # "string" THEN 0
    ELSE LET parts == split(toLowerCase(trim(ageString.s)))
         IN IF Len(parts) < 2 THEN 0
            ELSE LET value == parseInt(parts[1])
                     unit == parts[2]
                 IN IF value.t = "NaN" THEN 0
                    ELSE IF includes(unit, WEEK) THEN value.n
                    ELSE IF includes(unit, MONTH) THEN value.n * 5
                    ELSE 0

\* Utils.parseAgeToWeeks
parseAgeToWeeks(ageString) ==
    IF ~Truthy(ageString) \/ ageString.t # "string" THEN 0
    ELSE LET parts == split(toLowerCase(trim(ageString.s)))
         IN IF Len(parts) < 2 THEN 0
            ELSE LET value == parseInt(parts[1])
                     unit == parts[2]
                 IN IF value.t = "NaN" THEN 0
                    ELSE IF includes(unit, WEEK) THEN value.n
                    ELSE IF includes(unit, MONTH) THEN value.n * 4
                    ELSE 0

----------------------------------------------------------------------------
(* The catalog *)

RECURSIVE ToDigits(_)
\* The decimal numeral of n >= 0, as a character sequence
ToDigits(n) ==
    IF n < 10 THEN <<HexChars[n + 1]>>
    ELSE ToDigits(n \div 10) \o <<HexChars[(n % 10) + 1]>>

WEEKS == WEEK \o <<"s">>
MONTHS == MONTH \o <<"s">>

Age(n, unit) == JsStr(ToDigits(n) \o <<" ">> \o unit)

Puppy(id, name, breed, age, gender, price) ==
    [id |-> id, name |-> name, breed |-> breed, age |-> age,
     gender |-> gender, price |-> price]

\* The shipped catalog (description, vaccinations and image are display only)
puppies == <<
    Puppy("cc01", "Rocco", "Cane Corso", Age(11, WEEKS), "Male", 1500),
    Puppy("cc02", "Kane", "Cane Corso", Age(11, WEEKS), "Male", 1500),
    Puppy("cc03", "Jack", "Cane Corso", Age(11, WEEKS), "Male", 1500),
    Puppy("cc04", "Blake", "Cane Corso", Age(11, WEEKS), "Male", 1500),
    Puppy("cc05", "Luna", "Cane Corso", Age(11, WEEKS), "Female", 1800),
    Puppy("cc06", "Miya", "Cane Corso", Age(10, WEEKS), "Female", 1800),
    Puppy("cc07", "Lexi", "Cane Corso", Age(10, WEEKS), "Female", 1800),
    Puppy("cc08", "Lucy", "Cane Corso", Age(10, WEEKS), "Female", 1800),
    Puppy("ab01", "Brutus", "American Bully", Age(10, WEEKS), "Male", 2000),
    Puppy("ab02", "Xena", "American Bully", Age(9, WEEKS), "Female", 2200),
    Puppy("fr01", "Gaston", "French Bulldog", Age(8, WEEKS), "Male", 2500),
    Puppy("st01", "Rocky", "Staffy", Age(12, WEEKS), "Male", 1200) >>

\* Another catalog of the same record type: ages on and around the bucket
\* limits, in months, unparsable and missing; breed and gender in other case.
otherPuppies == <<
    Puppy("t01", "Ace", "Cane Corso", Age(7, WEEKS), "Female", 900),
    Puppy("t02", "Bea", "cane corso", Age(3, MONTHS), "Female", 950),
    Puppy("t03", "Cid", "Cane Corso", Age(6, MONTHS), "female", 1000),
    Puppy("t04", "Dot", "Staffy", Age(13, WEEKS), "Female", 1050),
    Puppy("t05", "Eve", "Cane Corso", Age(7, MONTHS), "Female", 1100),
    Puppy("t06", "Fay", "Cane Corso", JsStr(<<"y", "o", "u", "n", "g">>), "Female", 1150),
    Puppy("t07", "Gus", "Staffy", JsUndefined, "Male", 1250),
    Puppy("t08", "Hal", "Cane Corso", Age(2, MONTHS), "Male", 1300),
    Puppy("t09", "Ivy", "Cane Corso", Age(25, WEEKS), "Female", 1350) >>

Catalogs == {puppies, otherPuppies, <<>>}

PerPageValues == {ItemsPerPage} \cup (1..MaxPerPage)

----------------------------------------------------------------------------
(* FilterManager *)

BreedValues == {"all", "Cane Corso", "Staffy", "cane corso"}
AgeValues == {"all", "8-12 weeks", "3-6 months", "6+ months", "constructor"}
GenderValues == {"all", "Female", "Male"}

AllFilters == [breed |-> "all", age |-> "all", gender |-> "all"]

\* FilterManager.matchesBreedFilter
matchesBreedFilter(puppy, breedFilter) ==
    breedFilter = "all" \/ puppy.breed = breedFilter

\* FilterManager.matchesGenderFilter
matchesGenderFilter(puppy, genderFilter) ==
    genderFilter = "all" \/ puppy.gender = genderFilter

\* APP_CONFIG.ageRanges[ageFilter]: an own property, a member inherited from
\* Object.prototype, or undefined.
ageRangesLookup(ageFilter) ==
    IF ageFilter \in AgeRangeNames
    THEN [t |-> "object", min |-> JsNum(ageRanges(ageFilter).min),
                          max |-> JsNum(ageRanges(ageFilter).max)]
    ELSE IF ageFilter \in ObjectPrototypeNames
    THEN [t |-> "inherited", min |-> JsUndefined, max |-> JsUndefined]
    ELSE JsUndefined

\* number >= x and number <= x: a comparison with undefined (NaN) is false
JsGe(n, x) == x.t = "number" /\ n >= x.n
JsLe(n, x) == x.t = "number" /\ n <= x.n

\* A mutation of matchesAgeFilter: the upper limit excluded.
matchesAgeFilter_openMax(puppy, ageFilter) ==
    IF ageFilter = "all" THEN TRUE
    ELSE LET puppyAgeInWeeks == parseAgeToWeeks(puppy.age)
             ageRange == ageRangesLookup(ageFilter)
         IN IF ~Truthy(ageRange) THEN TRUE
            ELSE JsGe(puppyAgeInWeeks, ageRange.min)
                 /\ JsLe(puppyAgeInWeeks + 1, ageRange.max)

\* FilterManager.matchesAgeFilter
matchesAgeFilter(puppy, ageFilter) ==
    IF ageFilter = "all" THEN TRUE
    ELSE LET puppyAgeInWeeks == parseAgeToWeeks(puppy.age)
             ageRange == ageRangesLookup(ageFilter)
         IN IF ~Truthy(ageRange) THEN TRUE
            ELSE JsGe(puppyAgeInWeeks, ageRange.min)
                 /\ JsLe(puppyAgeInWeeks, ageRange.max)

\* A mutation of applyFilters: the gender predicate left out.
FilterManager_applyFilters_noGender(list, f) ==
    SelectSeq(list, LAMBDA puppy :
        matchesBreedFilter(puppy, f.breed) /\ matchesAgeFilter(puppy, f.age))

\* FilterManager.applyFilters, with getActiveFilters() = f
FilterManager_applyFilters(list, f) ==
    SelectSeq(list, LAMBDA puppy :
        /\ matchesBreedFilter(puppy, f.breed)
        /\ matchesAgeFilter(puppy, f.age)
        /\ matchesGenderFilter(puppy, f.gender))

----------------------------------------------------------------------------
(* PaginationManager *)

Max(a, b) == IF a >= b THEN a ELSE b
Min(a, b) == IF a <= b THEN a ELSE b

\* Math.ceil(length / itemsPerPage)
PageCount(items) == (Len(items) + itemsPerPage - 1) \div itemsPerPage

\* Array.prototype.slice(start, end): a negative index counts from the end
slice(items, start, end) ==
    LET len == Len(items)
        k == IF start < 0 THEN Max(len + start, 0) ELSE Min(start, len)
        final == IF end < 0 THEN Max(len + end, 0) ELSE Min(end, len)
    IN SubSeq(items, k + 1, final)

\* A mutation of getItemsForPage: the slice one item short.
getItemsForPage_short(items, page) ==
    LET start == (page - 1) * itemsPerPage
        end == start + itemsPerPage - 1
    IN slice(items, start, end)

\* PaginationManager.getItemsForPage
getItemsForPage(items, page) ==
    LET start == (page - 1) * itemsPerPage
        end == start + itemsPerPage
    IN slice(items, start, end)

\* A mutation of createPaginationItem: the click listener always attached.
createPaginationItem_alwaysListens(page, disabled, ariaLabel, active) ==
    [label |-> ariaLabel, page |-> page, disabled |-> disabled,
     active |-> active, listener |-> TRUE]

\* PaginationManager.createPaginationItem: the <li> with its classes and, unless
\* disabled, the click listener that goes to `page`
createPaginationItem(page, disabled, ariaLabel, active) ==
    [label |-> ariaLabel, page |-> page, disabled |-> disabled,
     active |-> active, listener |-> ~disabled]

\* A mutation of PaginationManager.render: the window starts at the current page.
PaginationManager_render_fromCurrent(items, cur) ==
    LET pageCount == PageCount(items)
        startPage == cur
        endPage == Min(pageCount, startPage + 4)
    IN IF pageCount <= 1 THEN <<>>
       ELSE <<createPaginationItem(cur - 1, cur = 1, "Previous", FALSE)>>
            \o [k \in 1..(endPage - startPage + 1) |->
                  createPaginationItem(startPage + k - 1, FALSE, "Page",
                                       startPage + k - 1 = cur)]
            \o <<createPaginationItem(cur + 1, cur = pageCount, "Next", FALSE)>>

\* PaginationManager.render with this.currentPage = cur: the content of the
\* pagination container
PaginationManager_render(items, cur) ==
    LET pageCount == PageCount(items)
        startPage == Max(1, cur - 2)
        endPage == Min(pageCount, startPage + 4)
    IN IF pageCount <= 1 THEN <<>>
       ELSE <<createPaginationItem(cur - 1, cur = 1, "Previous", FALSE)>>
            \o [k \in 1..(endPage - startPage + 1) |->
                  createPaginationItem(startPage + k - 1, FALSE, "Page",
                                       startPage + k - 1 = cur)]
            \o <<createPaginationItem(cur + 1, cur = pageCount, "Next", FALSE)>>

----------------------------------------------------------------------------
(* AvailablePage: the listing page *)

NoTimeout == -1
Unbounded == -1
TickMs == 150        \* the grain of time in the model
NoCall == [op |-> "none"]
NoReturn == [t |-> "pending"]

\* A null entry of the catalog: reading a property of it throws a TypeError
IsNull(p) == "t" \in DOMAIN p /\ p.t = "null"

\* createPuppyCard throws: a property of null is read, or puppy.price is not
\* a number and Utils.formatPrice calls toFixed on it
CardThrows(p) == IsNull(p) \/ "price" \notin DOMAIN p

\* The callback of puppies.filter throws: the first predicate whose filter is
\* not 'all' reads a property of a null entry
FilterThrows(list, f) ==
    /\ f # AllFilters
    /\ \E i \in 1..Len(list) : IsNull(list[i])

\* The number of cards appended before createPuppyCard throws, all when none does
CardsMade(pp) ==
    IF \E k \in 1..Len(pp) : CardThrows(pp[k])
    THEN (CHOOSE k \in 1..Len(pp) :
             CardThrows(pp[k]) /\ \A j \in 1..(k-1) : ~CardThrows(pp[j])) - 1
    ELSE Len(pp)

\* AvailablePage.renderPuppyGrid with PaginationManager.currentPage = cur: the
\* no-results box, or one card per record of the current page
renderPuppyGrid(items, cur) ==
    IF Len(items) = 0 THEN [noResults |-> TRUE, cards |-> <<>>]
    ELSE LET paginatedPuppies == getItemsForPage(items, cur)
         IN [noResults |-> FALSE,
             cards |-> [k \in 1..CardsMade(paginatedPuppies) |->
                           paginatedPuppies[k].id]]

\* renderPuppyGrid ends by an exception
GridThrows(items, cur) ==
    /\ Len(items) # 0
    /\ CardsMade(getItemsForPage(items, cur)) < Len(getItemsForPage(items, cur))

\* AvailablePage.render: the grid, then the pagination controls, which are not
\* reached when the grid throws
Render(items, cur) ==
    /\ grid' = renderPuppyGrid(items, cur)
    /\ controls' = IF GridThrows(items, cur) THEN controls
                   ELSE PaginationManager_render(items, cur)

\* A mutation of PaginationManager.reset: the page left where it was.
reset_keepsPage(cur) == cur

\* PaginationManager.reset: the new value of currentPage
reset(cur) == 1

\* A mutation: the catalog filtered in place.
filterReceiver_inPlace(list, f) ==
    FilterManager_applyFilters(list, f)

\* The array puppies.filter(...) was called on, after the call:
\* Array.prototype.filter builds a new array and leaves its receiver alone
filterReceiver(list, f) ==
    list

\* AvailablePage.applyFilters: filter the catalog, reset the page, render; an
\* exception ends the try block where it is thrown and is caught
ApplyFilters ==
    IF FilterThrows(catalog, filters)
    THEN UNCHANGED <<catalog, filteredPuppies, currentPage, grid, controls>>
    ELSE /\ filteredPuppies' = FilterManager_applyFilters(catalog, filters)
         /\ catalog' = filterReceiver(catalog, filters)
         /\ currentPage' = reset(currentPage)
         /\ Render(filteredPuppies', currentPage')

\* applyFilters reaches its catch block
ApplyFails ==
    \/ FilterThrows(catalog, filters)
    \/ GridThrows(FilterManager_applyFilters(catalog, filters), reset(currentPage))

NoBurst == [since |-> 0, runs |-> 0]

\* The order page is not the page loaded
OrderIdle ==
    /\ urlPuppyId = JsNull
    /\ selectedPuppy = JsNull
    /\ orderContent = "empty"
    /\ summary = [shipping |-> <<>>, total |-> <<>>]
    /\ form = [present |-> FALSE]
    /\ orderEvent = "none"

\* AvailablePage.init over one of the catalogs `from`: cacheElements, the copy
\* of the catalog, bindEvents and the first render, with the filter selects at
\* their first option
InitListingOf(from, perPage) ==
    /\ pagePath = "Available.html"
    /\ catalog \in from
    /\ itemsPerPage \in perPage
    /\ filters = AllFilters
    /\ filteredPuppies = catalog
    /\ currentPage = 1
    /\ grid = renderPuppyGrid(catalog, 1)
    /\ controls = IF GridThrows(catalog, 1) THEN <<>>
                  ELSE PaginationManager_render(catalog, 1)
    /\ timeout = NoTimeout
    /\ lastEvent = "init"
    /\ burst = NoBurst

InitListing == InitListingOf(Catalogs, PerPageValues)

Init ==
    /\ InitListing
    /\ changesLeft = Unbounded
    /\ OrderIdle
    /\ call = NoCall
    /\ ret = NoReturn

\* The click listener of #btn-filter
FilterButtonClick ==
    /\ pagePath = "Available.html"
    /\ ApplyFilters
    /\ lastEvent' = IF ApplyFails THEN "applyFailed" ELSE "filterButton"
    /\ UNCHANGED <<pagePath, itemsPerPage, filters, timeout, burst, changesLeft,
                   orderVars, call, ret>>

\* A mutation of the debounced listener: a pending timer is left running.
SelectChange_keepsTimer(which, v) ==
    /\ pagePath = "Available.html"
    /\ changesLeft # 0
    /\ v # filters[which]
    /\ filters' = [filters EXCEPT ![which] = v]
    /\ timeout' = IF timeout = NoTimeout THEN DebounceWait ELSE timeout
    /\ burst' = NoBurst
    /\ changesLeft' = IF changesLeft > 0 THEN changesLeft - 1 ELSE changesLeft
    /\ lastEvent' = "change"
    /\ UNCHANGED <<pagePath, catalog, itemsPerPage, filteredPuppies, currentPage,
                   grid, controls, orderVars, call, ret>>

\* The user picks another option of one filter select: its change listener is
\* the debounced autoFilter, which clears the pending timer and sets a new one
SelectChange(which, v) ==
    /\ pagePath = "Available.html"
    /\ changesLeft # 0
    /\ v # filters[which]
    /\ filters' = [filters EXCEPT ![which] = v]
    /\ timeout' = DebounceWait
    /\ burst' = NoBurst
    /\ changesLeft' = IF changesLeft > 0 THEN changesLeft - 1 ELSE changesLeft
    /\ lastEvent' = "change"
    /\ UNCHANGED <<pagePath, catalog, itemsPerPage, filteredPuppies, currentPage,
                   grid, controls, orderVars, call, ret>>

BreedChange == \E v \in BreedValues : SelectChange("breed", v)
AgeChange == \E v \in AgeValues : SelectChange("age", v)
GenderChange == \E v \in GenderValues : SelectChange("gender", v)

\* Time passes while a timer is pending
Tick ==
    /\ timeout > 0
    /\ timeout' = Max(0, timeout - TickMs)
    /\ burst' = [burst EXCEPT !.since = @ + TickMs]
    /\ UNCHANGED <<pagePath, catalog, itemsPerPage, filters, filteredPuppies,
                   currentPage, grid, controls, lastEvent, changesLeft,
                   orderVars, call, ret>>

\* The timer of Utils.debounce expires: `later` runs func, here applyFilters
TimerFire ==
    /\ timeout = 0
    /\ ApplyFilters
    /\ timeout' = NoTimeout
    /\ burst' = [burst EXCEPT !.runs = @ + 1]
    /\ lastEvent' = IF ApplyFails THEN "applyFailed" ELSE "debounced"
    /\ UNCHANGED <<pagePath, itemsPerPage, filters, changesLeft, orderVars, call, ret>>

\* A click on the i-th rendered pagination control: its listener, when it has
\* one, sets currentPage and calls onPageChange (AvailablePage.render); without
\* a listener the click does nothing to the page state
ControlClick(i) ==
    /\ i \in 1..Len(controls)
    /\ IF controls[i].listener
       THEN /\ currentPage' = controls[i].page
            /\ Render(filteredPuppies, currentPage')
       ELSE UNCHANGED <<currentPage, grid, controls>>
    /\ lastEvent' = IF controls[i].disabled THEN "disabledClick" ELSE "pageClick"
    /\ UNCHANGED <<pagePath, catalog, itemsPerPage, filters, filteredPuppies, timeout,
                   burst, changesLeft, orderVars, call, ret>>

PageClick == \E i \in 1..Len(controls) : ControlClick(i)

Next ==
    \/ FilterButtonClick
    \/ BreedChange
    \/ AgeChange
    \/ GenderChange
    \/ Tick
    \/ TimerFire
    \/ PageClick

Spec == Init /\ [][Next]_vars

\* The listing page over the shipped catalog, with a user who makes at most
\* MaxBurst change events
InitBurst ==
    /\ InitListingOf({puppies}, {ItemsPerPage})
    /\ changesLeft = MaxBurst
    /\ OrderIdle
    /\ call = NoCall
    /\ ret = NoReturn

\* Time passes and a timer that is due runs: the browser's timers
SpecBurst ==
    /\ InitBurst
    /\ [][Next]_vars
    /\ WF_vars(Tick)
    /\ WF_vars(TimerFire)

\* A catalog whose fifth record has no price, and one whose fifth entry is null
noPriceCatalog == <<
    Puppy("m01", "Ash", "Cane Corso", Age(10, WEEKS), "Male", 1500),
    Puppy("m02", "Bo", "Staffy", Age(11, WEEKS), "Male", 1200),
    Puppy("m03", "Cleo", "Cane Corso", Age(9, WEEKS), "Female", 1800),
    Puppy("m04", "Duke", "Cane Corso", Age(12, WEEKS), "Male", 1500),
    [id |-> "m05", name |-> "Ella", breed |-> "Cane Corso", age |-> Age(10, WEEKS),
     gender |-> "Female"],
    Puppy("m06", "Finn", "Staffy", Age(8, WEEKS), "Male", 1200) >>

nullEntryCatalog == [noPriceCatalog EXCEPT ![5] = JsNull]

FailCatalogs == {noPriceCatalog, nullEntryCatalog}

\* The listing page over catalogs with an entry that makes applyFilters fail,
\* placed after the first page so that the first render is complete
InitFail ==
    /\ InitListingOf(FailCatalogs, 1..MaxPerPage)
    /\ changesLeft = Unbounded
    /\ OrderIdle
    /\ call = NoCall
    /\ ret = NoReturn

SpecFail == InitFail /\ [][Next]_vars

----------------------------------------------------------------------------
(* OrderPage: the delivery surcharge and the total *)

\* APP_CONFIG.shipping[option]: an own property, a member inherited from
\* Object.prototype, or undefined
shippingLookup(option) ==
    IF option \in ShippingNames THEN JsNum(shipping(option))
    ELSE IF option \in ObjectPrototypeNames THEN JsInherited(option)
    ELSE JsUndefined

\* A mutation of getShippingCost: hand delivery charged as standard shipping.
getShippingCost_flat(option) ==
    LET cost == shippingLookup(IF option = "handDelivery" THEN "standard" ELSE option)
    IN IF Truthy(cost) THEN cost ELSE JsNum(0)

\* OrderPage.getShippingCost: APP_CONFIG.shipping[option] || 0
getShippingCost(option) ==
    LET cost == shippingLookup(option)
    IN IF Truthy(cost) THEN cost ELSE JsNum(0)

\* number + value: the sum of two numbers, else the concatenation of strings
JsPlus(n, v) ==
    IF v.t = "number" THEN JsNum(n + v.n)
    ELSE [t |-> "string", left |-> n, right |-> v]

\* The change listener of #deliveryOption, up to the formatting: the shipping
\* cost of the option and the total with the selected puppy's price
orderTotal(puppy, option) ==
    LET shippingCost == getShippingCost(option)
        total == JsPlus(puppy.price, shippingCost)
    IN [shippingCost |-> shippingCost, total |-> total]

----------------------------------------------------------------------------
(* OrderPage: the page, its form and its summary *)

\* Utils.formatPrice of a number with no fraction: "$" and price.toFixed(2)
formatPrice(price) == <<"$">> \o ToDigits(price.n) \o <<".", "0", "0">>

\* What Utils.getUrlParam returns when the parameter is in the URL
UrlParam(id) == [t |-> "string", id |-> id]

\* The puppyId parameters the order page is opened with
UrlIds ==
    {JsNull} \cup {UrlParam(id) : id \in {"", "cc01", "cc05", "st01", "t01", "zz99", "CC01"}}

\* The callback of puppies.find: p.id === puppyId
idMatches(p, puppyId) == puppyId.t = "string" /\ p.id = puppyId.id

\* A mutation of the lookup: the first record of the catalog when none matches.
find_orFirst(list, puppyId) ==
    IF \E i \in 1..Len(list) : idMatches(list[i], puppyId)
    THEN list[CHOOSE i \in 1..Len(list) :
                 /\ idMatches(list[i], puppyId)
                 /\ \A j \in 1..(i-1) : ~idMatches(list[j], puppyId)]
    ELSE IF Len(list) > 0 THEN list[1] ELSE JsUndefined

\* puppies.find(p => p.id === puppyId): the first match, else undefined
find(list, puppyId) ==
    IF \E i \in 1..Len(list) : idMatches(list[i], puppyId)
    THEN list[CHOOSE i \in 1..Len(list) :
                 /\ idMatches(list[i], puppyId)
                 /\ \A j \in 1..(i-1) : ~idMatches(list[j], puppyId)]
    ELSE JsUndefined

\* The callback of find throws: it reads the id of a null entry before a match
FindThrows(list, puppyId) ==
    \E i \in 1..Len(list) :
        /\ IsNull(list[i])
        /\ \A j \in 1..(i-1) : ~IsNull(list[j]) /\ ~idMatches(list[j], puppyId)

\* A value of the catalog, as opposed to null or undefined
IsObject(v) == "t" \notin DOMAIN v

\* The required controls of #adoptionForm, in document order
FormControls ==
    <<"firstName", "lastName", "email", "phone", "address", "deliveryOption",
      "experience", "termsCheck">>

\* What the user can put into a control: nothing, something, and for the email
\* input something that is not an e-mail address; the options of the select
ControlValues(name) ==
    CASE name = "email" -> {"", "text", "a@b.c"}
      [] name = "deliveryOption" -> {""} \cup ShippingNames
      [] name = "termsCheck" -> {"", "checked"}
      [] OTHER -> {"", "text"}

\* The constraint validation of one control: `required`, and type=email
controlValid(name, v) ==
    /\ v # ""
    /\ name = "email" => v = "a@b.c"

\* A mutation of checkValidity: the terms checkbox is not looked at.
checkValidity_noTerms(fields) ==
    \A k \in 1..(Len(FormControls) - 1) :
        controlValid(FormControls[k], fields[FormControls[k]])

\* form.checkValidity()
checkValidity(fields) ==
    \A k \in 1..Len(FormControls) :
        controlValid(FormControls[k], fields[FormControls[k]])

\* form.querySelector(':invalid'): the first invalid control in document order
firstInvalid(fields) ==
    FormControls[CHOOSE k \in 1..Len(FormControls) :
        /\ ~controlValid(FormControls[k], fields[FormControls[k]])
        /\ \A j \in 1..(k-1) : controlValid(FormControls[j], fields[FormControls[j]])]

NoSummary == [shipping |-> <<>>, total |-> <<>>]
NoForm == [present |-> FALSE]

\* generateOrderForm: every control empty, nothing focused, not submitted
generateOrderForm(puppy) ==
    [present |-> TRUE,
     fields |-> [name \in {FormControls[k] : k \in 1..Len(FormControls)} |-> ""],
     wasValidated |-> FALSE,
     focus |-> "none",
     submitted |-> FALSE]

\* generateOrderSummary: the texts of #summaryShipping and #summaryTotal
generateOrderSummary(puppy) ==
    [shipping |-> formatPrice(JsNum(0)), total |-> formatPrice(JsNum(puppy.price))]

\* The listing page is not the page loaded
ListingIdle ==
    /\ itemsPerPage = ItemsPerPage
    /\ filters = AllFilters
    /\ filteredPuppies = <<>>
    /\ currentPage = 1
    /\ grid = [noResults |-> FALSE, cards |-> <<>>]
    /\ controls = <<>>
    /\ timeout = NoTimeout
    /\ lastEvent = "none"
    /\ burst = NoBurst
    /\ changesLeft = Unbounded

\* OrderPage.init throws: in the lookup, or in formatPrice of a price that is
\* not a number; PawsTailsApp.init catches it
OrderInitThrows(list, puppyId) ==
    \/ FindThrows(list, puppyId)
    \/ /\ IsObject(find(list, puppyId))
       /\ "price" \notin DOMAIN find(list, puppyId)

\* PawsTailsApp.init on Orders.html over one of the catalogs `from`:
\* OrderPage.init, that is loadPuppyData and render
InitOrderOf(from) ==
    /\ pagePath = "Orders.html"
    /\ catalog \in from
    /\ urlPuppyId \in UrlIds
    /\ selectedPuppy = IF FindThrows(catalog, urlPuppyId) THEN JsNull
                       ELSE find(catalog, urlPuppyId)
    /\ orderContent = IF OrderInitThrows(catalog, urlPuppyId) THEN "empty"
                      ELSE IF IsObject(selectedPuppy) THEN "form"
                      ELSE "noPuppy"
    /\ summary = IF orderContent = "form" THEN generateOrderSummary(selectedPuppy)
                 ELSE NoSummary
    /\ form = IF orderContent = "form" THEN generateOrderForm(selectedPuppy)
              ELSE NoForm
    /\ orderEvent = IF OrderInitThrows(catalog, urlPuppyId) THEN "initError"
                    ELSE "init"
    /\ ListingIdle
    /\ call = NoCall
    /\ ret = NoReturn

InitOrder == InitOrderOf(Catalogs)

\* The user fills in or empties a control other than the delivery select
EditField(name, v) ==
    /\ pagePath = "Orders.html"
    /\ form.present
    /\ ~form.submitted
    /\ name # "deliveryOption"
    /\ v # form.fields[name]
    /\ form' = [form EXCEPT !.fields[name] = v, !.focus = name]
    /\ orderEvent' = "edit"
    /\ UNCHANGED <<pagePath, listingVars, urlPuppyId, selectedPuppy, orderContent,
                   summary, call, ret>>

FieldInput ==
    \E k \in 1..Len(FormControls) :
        \E v \in ControlValues(FormControls[k]) : EditField(FormControls[k], v)

\* The user picks another delivery option: the change listener of
\* #deliveryOption writes the shipping cost and the total into the summary
DeliveryChange(v) ==
    /\ pagePath = "Orders.html"
    /\ form.present
    /\ ~form.submitted
    /\ v # form.fields["deliveryOption"]
    /\ form' = [form EXCEPT !.fields["deliveryOption"] = v, !.focus = "deliveryOption"]
    /\ LET t == orderTotal(selectedPuppy, v)
       IN summary' = [shipping |-> formatPrice(t.shippingCost),
                      total |-> formatPrice(t.total)]
    /\ orderEvent' = "deliveryChange"
    /\ UNCHANGED <<pagePath, listingVars, urlPuppyId, selectedPuppy, orderContent,
                   call, ret>>

DeliverySelect == \E v \in ControlValues("deliveryOption") : DeliveryChange(v)

\* The submit event of #adoptionForm (the form is novalidate, so the event
\* fires whatever the controls hold): handleFormSubmit blocks an invalid form,
\* marks it and focuses its first invalid control; a valid form is left to the
\* browser, which posts it to the form's action
Submit ==
    /\ pagePath = "Orders.html"
    /\ form.present
    /\ ~form.submitted
    /\ IF ~checkValidity(form.fields)
       THEN /\ form' = [form EXCEPT !.wasValidated = TRUE,
                                    !.focus = firstInvalid(form.fields)]
            /\ orderEvent' = "submitBlocked"
       ELSE /\ form' = [form EXCEPT !.submitted = TRUE]
            /\ orderEvent' = "submitted"
    /\ UNCHANGED <<pagePath, listingVars, urlPuppyId, selectedPuppy, orderContent,
                   summary, call, ret>>

NextOrder ==
    \/ FieldInput
    \/ DeliverySelect
    \/ Submit

SpecOrder == InitOrder /\ [][NextOrder]_vars

\* PawsTailsApp.init: the page loaded is the listing page or the order page,
\* and from then on the handlers of that page run
InitSite == Init \/ InitOrder

NextSite == Next \/ NextOrder

SpecSite == InitSite /\ [][NextSite]_vars

----------------------------------------------------------------------------
(* Direct calls of the functions, over bounded sets of arguments *)

NumTokens ==
    {ToDigits(n) : n \in 0..MaxAgeNum}
    \cup {<<>>, <<"x">>, <<"-", "3">>, <<"8", "x">>, <<"x", "8">>,
          <<"0", "x", "1", "0">>, <<"8", ".", "5">>, <<"0", "8">>}

UnitTokens ==
    {WEEKS, WEEK, <<"W", "e", "e", "k", "s">>, MONTHS, MONTH,
     <<"M", "O", "N", "T", "H", "S">>, <<"d", "a", "y", "s">>, <<"w", "k", "s">>,
     <<>>}

Separators == {<<" ">>, <<" ", " ">>, <<"\t">>, <<>>}
Pads == {<<>>, <<" ">>}
Suffixes == {<<>>, <<" ", "o", "l", "d">>}

AgeStrings ==
    {p \o n \o sep \o u \o x \o p :
        p \in Pads, n \in NumTokens, sep \in Separators, u \in UnitTokens,
        x \in Suffixes}

AgeInputs ==
    {JsStr(s) : s \in AgeStrings}
    \cup {JsUndefined, JsNull, JsNum(0), JsNum(11), JsNaN, [t |-> "object"]}

DeliveryOptions ==
    {"", "pickup", "standard", "handDelivery", "Pickup", "express", "overnight"}
    \cup ObjectPrototypeNames

AllPuppies == {puppies[i] : i \in 1..Len(puppies)}
                 \cup {otherPuppies[i] : i \in 1..Len(otherPuppies)}

Items(n) == [i \in 1..n |-> i]

Calls ==
    [op : {"parseAgeToWeeks"}, ageString : AgeInputs]
    \cup [op : {"matchesAgeFilter"}, ageFilter : AgeValues,
          puppy : AllPuppies \cup
                  {Puppy("n", "N", "Staffy", Age(n, u), "Male", 1000) :
                      n \in 0..MaxAgeNum, u \in {WEEKS, MONTHS}}]
    \cup [op : {"orderTotal"}, puppy : AllPuppies, option : DeliveryOptions]
    \cup [op : {"getItemsForPage"}, items : {Items(n) : n \in 0..MaxItems},
          page : (0 - MaxPageArg)..(MaxItems + MaxPageArg)]
    \cup [op : {"pages"}, items : {Items(n) : n \in 0..MaxItems}]

\* No page is open: the variables of both pages stay at their empty values
InitFn ==
    /\ call \in Calls
    /\ ret = NoReturn
    /\ itemsPerPage \in
          IF call.op \in {"getItemsForPage", "pages"} THEN PerPageValues
          ELSE {ItemsPerPage}
    /\ pagePath = "index.html"
    /\ catalog = <<>>
    /\ filters = AllFilters
    /\ filteredPuppies = catalog
    /\ currentPage = 1
    /\ grid = renderPuppyGrid(catalog, 1)
    /\ controls = PaginationManager_render(catalog, 1)
    /\ timeout = NoTimeout
    /\ lastEvent = "none"
    /\ burst = NoBurst
    /\ changesLeft = Unbounded
    /\ OrderIdle

Return(v) ==
    /\ ret = NoReturn
    /\ ret' = v
    /\ UNCHANGED <<call, pagePath, listingVars, orderVars>>

CallParseAgeToWeeks ==
    /\ call.op = "parseAgeToWeeks"
    /\ Return(JsNum(parseAgeToWeeks(call.ageString)))

CallMatchesAgeFilter ==
    /\ call.op = "matchesAgeFilter"
    /\ Return([t |-> "boolean", b |-> matchesAgeFilter(call.puppy, call.ageFilter)])

CallOrderTotal ==
    /\ call.op = "orderTotal"
    /\ Return(orderTotal(call.puppy, call.option))

CallGetItemsForPage ==
    /\ call.op = "getItemsForPage"
    /\ Return([t |-> "array", items |-> getItemsForPage(call.items, call.page)])

\* getItemsForPage for each page 1..pageCount of one list
CallPages ==
    /\ call.op = "pages"
    /\ Return([t |-> "pages",
               pages |-> [p \in 1..PageCount(call.items) |->
                             getItemsForPage(call.items, p)]])

NextFn ==
    \/ CallParseAgeToWeeks
    \/ CallMatchesAgeFilter
    \/ CallOrderTotal
    \/ CallGetItemsForPage
    \/ CallPages

SpecFn == InitFn /\ [][NextFn]_vars

----------------------------------------------------------------------------
(* What the claims are stated with *)

Applied == lastEvent \in {"filterButton", "debounced"}

\* The k-th smallest member of a set of indices
Kth(S, k) == CHOOSE i \in S : Cardinality({j \in S : j <= i}) = k

\* result holds exactly the records of list at the indices S, in list order
IsSelection(result, list, S) ==
    /\ Len(result) = Cardinality(S)
    /\ \A k \in 1..Len(result) : result[k] = list[Kth(S, k)]

Names(list) == [k \in 1..Len(list) |-> list[k].name]

BreedOk(p, f) == f.breed = "all" \/ p.breed = f.breed
GenderOk(p, f) == f.gender = "all" \/ p.gender = f.gender

\* The age predicate: the wildcard, a configured bucket as a closed interval
\* of weeks, and for any other value what matchesAgeFilter decides (C6)
AgeOk(p, f) ==
    CASE f.age = "all" -> TRUE
      [] f.age = "8-12 weeks" ->
            8 <= parseAgeToWeeks(p.age) /\ parseAgeToWeeks(p.age) <= 12
      [] f.age = "3-6 months" ->
            12 <= parseAgeToWeeks(p.age) /\ parseAgeToWeeks(p.age) <= 24
      [] OTHER -> matchesAgeFilter(p, f.age)

\* C1: after applyFilters the filtered list holds exactly the catalog records
\* that satisfy the breed, age and gender predicates together, in catalog
\* order, each once; over the shipped catalog breed 'Cane Corso' with gender
\* 'Female' gives Luna, Miya, Lexi, Lucy.
C1_FilterIsConjunction ==
    Applied =>
        /\ IsSelection(filteredPuppies, catalog,
              {i \in 1..Len(catalog) :
                  /\ BreedOk(catalog[i], filters)
                  /\ AgeOk(catalog[i], filters)
                  /\ GenderOk(catalog[i], filters)})
        /\ (/\ catalog = puppies
            /\ filters = [breed |-> "Cane Corso", age |-> "all", gender |-> "Female"])
           => Names(filteredPuppies) = <<"Luna", "Miya", "Lexi", "Lucy">>

C1_Witness ==
    /\ Applied
    /\ catalog = puppies
    /\ filters = [breed |-> "Cane Corso", age |-> "all", gender |-> "Female"]
    /\ Len(filteredPuppies) = 4

Returned(op) == call.op = op /\ ret # NoReturn

\* The least k with k * per >= n
CeilDiv(n, per) == CHOOSE k \in 0..n : k * per >= n /\ \A j \in 0..(k-1) : j * per < n

RECURSIVE Concat(_)
Concat(ss) == IF ss = <<>> THEN <<>> ELSE Head(ss) \o Concat(Tail(ss))

RECURSIVE SumLen(_)
SumLen(ss) == IF ss = <<>> THEN 0 ELSE Len(Head(ss)) + SumLen(Tail(ss))

Elems(s) == {s[i] : i \in 1..Len(s)}

\* C2: the pages 1..ceil(n / itemsPerPage) of a list are disjoint, concatenate
\* to the list, every page but the last is full and the last holds between 1
\* and itemsPerPage items.
C2_PagesPartition ==
    Returned("pages") =>
        LET pages == ret.pages
            n == Len(call.items)
            pageCount == CeilDiv(n, itemsPerPage)
        IN /\ Len(pages) = pageCount
           /\ Concat(pages) = call.items
           /\ SumLen(pages) = n
           /\ \A p, q \in 1..pageCount :
                 p # q => Elems(pages[p]) \cap Elems(pages[q]) = {}
           /\ \A p \in 1..(pageCount - 1) : Len(pages[p]) = itemsPerPage
           /\ pageCount >= 1 =>
                 /\ Len(pages[pageCount]) >= 1
                 /\ Len(pages[pageCount]) <= itemsPerPage

C2_Witness ==
    /\ Returned("pages")
    /\ itemsPerPage = 10
    /\ Len(call.items) = 12
    /\ Len(ret.pages) = 2
    /\ Len(ret.pages[2]) = 2

Surcharge(option) ==
    CASE option = "pickup" -> 0
      [] option = "standard" -> 150
      [] option = "handDelivery" -> 350
      [] OTHER -> 0

\* C3: the shipping cost is 0 for 'pickup', 150 for 'standard', 350 for
\* 'handDelivery' and 0 for every other option value, and the total is the
\* puppy's price plus that cost.
C3_TotalIsPricePlusSurcharge ==
    Returned("orderTotal") =>
        /\ ret.shippingCost = JsNum(Surcharge(call.option))
        /\ ret.total = JsNum(call.puppy.price + Surcharge(call.option))

\* C3 as a witnessable case: the three configured options
C3_Witness ==
    /\ Returned("orderTotal")
    /\ call.option = "handDelivery"
    /\ call.puppy.price = 1500
    /\ ret.total = JsNum(1850)

\* A string whose white space is only single spaces between its tokens
\* (after trimming): its tokens are what is between the spaces.
Canonical(s) ==
    LET t == trim(s)
    IN /\ \A i \in 1..Len(t) : t[i] # "\t"
       /\ \A i \in 1..(Len(t) - 1) : ~(t[i] = " " /\ t[i+1] = " ")

SpaceAt(t) == {i \in 1..Len(t) : t[i] = " "}

FirstSpace(t) == CHOOSE i \in SpaceAt(t) : \A j \in SpaceAt(t) : i <= j

FirstToken(s) ==
    LET t == trim(s)
    IN IF SpaceAt(t) = {} THEN t ELSE SubSeq(t, 1, FirstSpace(t) - 1)

AfterFirstToken(s) ==
    LET t == trim(s)
    IN IF SpaceAt(t) = {} THEN <<>> ELSE SubSeq(t, FirstSpace(t) + 1, Len(t))

SecondToken(s) == FirstToken(AfterFirstToken(s))

IsDecimalDigit(c) == c \in {"0", "1", "2", "3", "4", "5", "6", "7", "8", "9"}

\* A token that does not start as an integer: no digit, after an optional sign
NonNumeric(tok) ==
    LET body == IF tok # <<>> /\ tok[1] \in {"-", "+"} THEN Tail(tok) ELSE tok
    IN body = <<>> \/ ~IsDecimalDigit(body[1])

WeekWords == {WEEK, WEEKS, <<"W", "e", "e", "k", "s">>}
MonthWords == {MONTH, MONTHS, <<"M", "O", "N", "T", "H", "S">>}

\* Malformed input as the claim lists it: a missing or non-string value, an
\* empty string, fewer than two tokens, a non-numeric first token, a unit that
\* names neither weeks nor months
Malformed(v) ==
    \/ v.t # "string"
    \/ trim(v.s) = <<>>
    \/ /\ Canonical(v.s)
       /\ \/ SpaceAt(trim(v.s)) = {}
          \/ NonNumeric(FirstToken(v.s))
          \/ /\ ~includes(toLowerCase(SecondToken(v.s)), WEEK)
             /\ ~includes(toLowerCase(SecondToken(v.s)), MONTH)

\* C4: parseAgeToWeeks returns N for 'N weeks', 4 * N for 'N months' and 0 for
\* malformed, empty or non-string input; it always returns a number.
C4_ParseAgeToWeeks ==
    Returned("parseAgeToWeeks") =>
        /\ ret.t = "number"
        /\ \A n \in 0..MaxAgeNum, p \in Pads :
              /\ \A u \in WeekWords :
                    call.ageString = JsStr(p \o ToDigits(n) \o <<" ">> \o u \o p)
                        => ret = JsNum(n)
              /\ \A u \in MonthWords :
                    call.ageString = JsStr(p \o ToDigits(n) \o <<" ">> \o u \o p)
                        => ret = JsNum(4 * n)
        /\ Malformed(call.ageString) => ret = JsNum(0)

C4_Witness ==
    /\ Returned("parseAgeToWeeks")
    /\ call.ageString = JsStr(<<"1", "3", " ", "m", "o", "n", "t", "h", "s">>)
    /\ ret = JsNum(52)

\* C5: for a configured bucket a record matches the age predicate exactly when
\* its age in weeks lies in the bucket's closed interval, [8, 12] for
\* '8-12 weeks' and [12, 24] for '3-6 months'; an age that parses to 0 matches
\* no bucket.
C5_AgeBucketIsClosedInterval ==
    (Returned("matchesAgeFilter") /\ call.ageFilter \in {"8-12 weeks", "3-6 months"}) =>
        LET weeks == parseAgeToWeeks(call.puppy.age)
            lo == IF call.ageFilter = "8-12 weeks" THEN 8 ELSE 12
            hi == IF call.ageFilter = "8-12 weeks" THEN 12 ELSE 24
        IN /\ ret.b = (lo <= weeks /\ weeks <= hi)
           /\ weeks = 0 => ret.b = FALSE

C5_Witness ==
    /\ Returned("matchesAgeFilter")
    /\ call.ageFilter = "3-6 months"
    /\ call.puppy.age = Age(6, MONTHS)
    /\ ret.b = TRUE

\* C6: with an age filter value that is no configured bucket, filtering gives
\* what the wildcard age filter gives: the records matching breed and gender.
C6_UnknownBucketIsWildcard ==
    (Applied /\ filters.age \notin {"8-12 weeks", "3-6 months"}) =>
        IsSelection(filteredPuppies, catalog,
            {i \in 1..Len(catalog) :
                BreedOk(catalog[i], filters) /\ GenderOk(catalog[i], filters)})

\* C7: after every applyFilters, from the Filter button or from the debounce
\* timer, currentPage is 1 and the grid shows the first page of the newly
\* filtered list.
C7_FilterResetsPage ==
    Applied =>
        /\ currentPage = 1
        /\ IsSelection(filteredPuppies, catalog,
              {i \in 1..Len(catalog) :
                  /\ BreedOk(catalog[i], filters)
                  /\ AgeOk(catalog[i], filters)
                  /\ GenderOk(catalog[i], filters)})
        /\ grid.cards = [k \in 1..Min(itemsPerPage, Len(filteredPuppies)) |->
                            filteredPuppies[k].id]
        /\ grid.noResults = (filteredPuppies = <<>>)

C7_Witness ==
    /\ lastEvent = "debounced"
    /\ currentPage = 1
    /\ Len(filteredPuppies) > itemsPerPage
    /\ filteredPuppies # catalog

\* C8: getItemsForPage returns the items at indices [(page-1)*itemsPerPage,
\* page*itemsPerPage), and the empty list for every page below 1 or above the
\* page count.
C8_PageSlice ==
    Returned("getItemsForPage") =>
        LET n == Len(call.items)
            pageCount == CeilDiv(n, itemsPerPage)
            first == (call.page - 1) * itemsPerPage + 1
            last == Min(call.page * itemsPerPage, n)
        IN IF call.page < 1 \/ call.page > pageCount
           THEN ret.items = <<>>
           ELSE ret.items = [k \in 1..(last - first + 1) |-> call.items[first + k - 1]]

C8_Witness ==
    /\ Returned("getItemsForPage")
    /\ itemsPerPage = 10
    /\ Len(call.items) = 12
    /\ call.page = 2
    /\ ret.items = <<11, 12>>

NumberControls == SelectSeq(controls, LAMBDA c : c.label = "Page")

\* C9: rendered page-number controls are the contiguous pages start..end with
\* start = max(1, currentPage - 2) and end = min(pageCount, start + 4): at most
\* 5, all in 1..pageCount, currentPage among them, and only it marked active.
C9_PageWindow ==
    controls # <<>> =>
        LET pageCount == CeilDiv(Len(filteredPuppies), itemsPerPage)
            start == IF currentPage - 2 >= 1 THEN currentPage - 2 ELSE 1
            end == IF start + 4 <= pageCount THEN start + 4 ELSE pageCount
            nums == NumberControls
        IN /\ Len(nums) = end - start + 1
           /\ \A k \in 1..Len(nums) : nums[k].page = start + k - 1
           /\ Len(nums) <= 5
           /\ \A k \in 1..Len(nums) : nums[k].page >= 1 /\ nums[k].page <= pageCount
           /\ \E k \in 1..Len(nums) : nums[k].page = currentPage
           /\ \A k \in 1..Len(controls) :
                 controls[k].active =
                    (controls[k].label = "Page" /\ controls[k].page = currentPage)
           /\ \A k \in 2..(Len(controls) - 1) : controls[k].label = "Page"

C9_Witness ==
    /\ controls # <<>>
    /\ currentPage = 4
    /\ Len(NumberControls) = 5
    /\ NumberControls[1].page = 2
    /\ CeilDiv(Len(filteredPuppies), itemsPerPage) > 6

ControlsShape ==
    LET pageCount == CeilDiv(Len(filteredPuppies), itemsPerPage)
    IN /\ (controls # <<>>) = (pageCount > 1)
       /\ controls # <<>> =>
             /\ controls[1].label = "Previous"
             /\ controls[Len(controls)].label = "Next"
             /\ \A k \in 1..Len(controls) :
                   /\ controls[k].label = "Previous" => k = 1
                   /\ controls[k].label = "Next" => k = Len(controls)
             /\ controls[1].disabled = (currentPage = 1)
             /\ controls[Len(controls)].disabled = (currentPage = pageCount)

\* C10: pagination controls are rendered exactly when pageCount > 1; then
\* Previous and Next are both there, Previous disabled exactly on page 1 and
\* Next exactly on the last page; and a click on a disabled control changes
\* neither currentPage nor the grid.
C10_ControlsAndDisabled ==
    /\ []ControlsShape
    /\ [][lastEvent' = "disabledClick" =>
            (currentPage' = currentPage /\ grid' = grid /\ controls' = controls)]_vars

C10_Witness ==
    /\ lastEvent = "disabledClick"
    /\ controls # <<>>
    /\ currentPage = CeilDiv(Len(filteredPuppies), itemsPerPage)
    /\ controls[Len(controls)].disabled

\* The amount a price text shows: "$", decimal digits, ".00"; -1 for any other text
RECURSIVE DigitsValue(_)
DigitsValue(cs) ==
    IF cs = <<>> THEN 0
    ELSE 10 * DigitsValue(SubSeq(cs, 1, Len(cs) - 1)) + DigitVal(cs[Len(cs)])

ShownAmount(text) ==
    IF /\ Len(text) >= 5
       /\ text[1] = "$"
       /\ SubSeq(text, Len(text) - 2, Len(text)) = <<".", "0", "0">>
       /\ \A k \in 2..(Len(text) - 3) : IsDecimalDigit(text[k])
    THEN DigitsValue(SubSeq(text, 2, Len(text) - 3))
    ELSE -1

\* C11: on the order page with a selected puppy, in every state reached by any
\* sequence of delivery-option changes, the first state with no option chosen
\* included, the shipping shown is the surcharge of the option selected and
\* the total shown is the puppy's price plus that surcharge.
C11_SummaryTracksOption ==
    (pagePath = "Orders.html" /\ orderContent = "form") =>
        LET option == form.fields["deliveryOption"]
        IN /\ ShownAmount(summary.shipping) = Surcharge(option)
           /\ ShownAmount(summary.total) = selectedPuppy.price + Surcharge(option)

C11_Witness ==
    /\ orderContent = "form"
    /\ orderEvent = "deliveryChange"
    /\ form.fields["deliveryOption"] = "handDelivery"
    /\ selectedPuppy.id = "cc05"
    /\ summary.total = <<"$", "2", "1", "5", "0", ".", "0", "0">>

\* The places of the catalog whose id is the puppyId of the URL
IdPlaces ==
    {i \in 1..Len(catalog) : urlPuppyId # JsNull /\ catalog[i].id = urlPuppyId.id}

\* C13: the order form and the summary are rendered exactly when the puppyId
\* of the URL is the id of a record of the catalog, and the selected record is
\* then the one record with that id; for a missing or unmatched id the page
\* shows the no-puppy-selected state, with no form, no total and no error.
C13_FormIffIdInCatalog ==
    pagePath = "Orders.html" =>
        /\ (orderContent = "form") = (IdPlaces # {})
        /\ IdPlaces # {} =>
              /\ \E i \in IdPlaces : IdPlaces = {i} /\ selectedPuppy = catalog[i]
              /\ form.present
              /\ ShownAmount(summary.total) >= selectedPuppy.price
        /\ IdPlaces = {} =>
              /\ orderContent = "noPuppy"
              /\ ~form.present
              /\ summary = NoSummary
              /\ orderEvent # "initError"

C13_Witness ==
    /\ pagePath = "Orders.html"
    /\ catalog = puppies
    /\ urlPuppyId = UrlParam("CC01")
    /\ orderContent = "noPuppy"

\* The required fields, in the order of the form
RequiredFields ==
    <<"firstName", "lastName", "email", "phone", "address", "deliveryOption",
      "experience", "termsCheck">>

\* A required field is present and valid
FieldOk(name, fields) ==
    /\ fields[name] # ""
    /\ name = "email" => fields[name] \notin {"", "text"}

AllRequiredOk(fields) ==
    \A k \in 1..Len(RequiredFields) : FieldOk(RequiredFields[k], fields)

\* A step of the submit handler
SubmitStep ==
    /\ pagePath = "Orders.html"
    /\ form.present
    /\ orderEvent' \in {"submitBlocked", "submitted"}

\* C14: a submit is handed off only if every required field is present and
\* valid; otherwise it is blocked, the form is marked validated, the focus
\* moves to the first invalid field and the form stays usable, so that a later
\* valid submit goes through.
C14_SubmitOnlyWhenValid ==
    /\ []((form.present /\ form.submitted) => AllRequiredOk(form.fields))
    /\ [][SubmitStep =>
            IF AllRequiredOk(form.fields)
            THEN form'.submitted
            ELSE /\ ~form'.submitted
                 /\ form'.wasValidated
                 /\ form'.fields = form.fields
                 /\ \E k \in 1..Len(RequiredFields) :
                       /\ form'.focus = RequiredFields[k]
                       /\ ~FieldOk(RequiredFields[k], form.fields)
                       /\ \A j \in 1..(k-1) : FieldOk(RequiredFields[j], form.fields)]_vars

C14_Witness ==
    /\ form.present
    /\ form.wasValidated
    /\ form.submitted
    /\ orderEvent = "submitted"

\* A step in which the debounced evaluation runs
DebouncedRun == burst'.runs = burst.runs + 1

\* C12: for a burst of change events on the filter inputs, each less than 300
\* ms after the one before, exactly one re-evaluation runs: none sooner than
\* 300 ms after the last event, no second one, and the one that runs, which a
\* pending timer always leads to, filters by the values the inputs hold after
\* the last event.
C12_DebounceRunsOnce ==
    /\ [](burst.runs <= 1)
    /\ [][DebouncedRun =>
            /\ burst.since >= 300
            /\ burst.runs = 0
            /\ filters' = filters
            /\ IsSelection(filteredPuppies', catalog,
                  {i \in 1..Len(catalog) :
                      /\ BreedOk(catalog[i], filters)
                      /\ AgeOk(catalog[i], filters)
                      /\ GenderOk(catalog[i], filters)})]_vars
    /\ (timeout # NoTimeout) ~> (timeout = NoTimeout /\ burst.runs = 1)

C12_Witness ==
    /\ lastEvent = "debounced"
    /\ changesLeft = 0
    /\ burst.runs = 1
    /\ filters = [breed |-> "Cane Corso", age |-> "8-12 weeks", gender |-> "Female"]
    /\ Names(filteredPuppies) = <<"Luna", "Miya", "Lexi", "Lucy">>

\* C15: a failure raised while AvailablePage.applyFilters runs is caught there
\* and leaves the render state as it was: filteredPuppies, currentPage and the
\* grid shown are what they were before the call.
C15_FailureKeepsRenderState ==
    [][lastEvent' = "applyFailed" =>
          /\ filteredPuppies' = filteredPuppies
          /\ currentPage' = currentPage
          /\ grid' = grid]_vars

C15_Witness ==
    /\ lastEvent = "applyFailed"
    /\ catalog = noPriceCatalog
    /\ filters = [breed |-> "all", age |-> "all", gender |-> "Female"]
    /\ Names(filteredPuppies) = <<"Cleo", "Ella">>
    /\ grid.cards = <<"m03">>

\* C16: no operation mutates the catalog: through every page load, filter
\* application, page navigation, puppy lookup and delivery-option change the
\* catalog stays the list of records it was.
C16_CatalogReadOnly == [][catalog' = catalog]_vars

C16_Witness ==
    /\ catalog = puppies
    /\ lastEvent = "pageClick"
    /\ filters.gender = "Male"
    /\ Len(filteredPuppies) = 7
    /\ currentPage = 3

\* C17: in every state of the listing page reached by filter applications,
\* from the button or debounced, and clicks on rendered pagination controls,
\* 1 <= currentPage <= max(1, pageCount), and so the page shown is not empty
\* when the filtered list is not.
C17_CurrentPageInRange ==
    pagePath = "Available.html" =>
        LET pageCount == CeilDiv(Len(filteredPuppies), itemsPerPage)
        IN /\ 1 <= currentPage
           /\ currentPage <= (IF pageCount > 1 THEN pageCount ELSE 1)
           /\ filteredPuppies # <<>> => (~grid.noResults /\ grid.cards # <<>>)

C17_Witness ==
    /\ lastEvent = "pageClick"
    /\ filters # AllFilters
    /\ currentPage >= 3
    /\ currentPage = CeilDiv(Len(filteredPuppies), itemsPerPage)
    /\ Len(grid.cards) < itemsPerPage

=============================================================================
